---- MODULE Spec2Model ----
(***************************************************************************)
(* A model of the bias-script synthesizer (rid/common/plumed/make_plumed.py)*)
(* and of the selection operator (rid/op/run_select.py) of rid-kit.         *)
(*                                                                         *)
(* Text is modelled structurally.  A line of a user CV file is a record    *)
(* that says which of the substrings the parser tests for it contains; a   *)
(* script is the list of elements handed to list_to_string, in order.      *)
(***************************************************************************)
EXTENDS Integers, Sequences, FiniteSets, TLC

VARIABLES
    pc,        \* position of the current call: "idle", then "done"
    call,      \* the function called and its arguments
    result,    \* what the call returned, or the error it raised
    written,   \* the files the call wrote in the task directory, in order
    std_calls  \* how many times the call ran the deviation calculator

vars == <<pc, call, result, written, std_calls>>

(***************************************************************************)
(* Bounds of the model.                                                    *)
(***************************************************************************)
MaxLines == 3      \* lines of a user CV file handed to user_plumed_def
MaxArgs == 2       \* names listed in the ARG field of a PRINT directive
MaxRes == 2        \* residues (atom pairs) the structural collaborator reports
MaxSynthLines == 2 \* lines of a user CV file handed to a synthesizer
MaxSeq == 2        \* length of a kappa or at sequence
MaxModels == 2     \* model files of the committee
MaxCand == 5       \* candidate frames handed to a selection call
MaxSteps == 3      \* steps recorded in the graph of the old workflow

(***************************************************************************)
(* The user CV file.  The label a line declares is its line number, so     *)
(* labels are unique, as PLUMED requires.                                  *)
(*   comment : "# ..."                          (contains "#")             *)
(*   colon   : "<label>: <type> ..."            (contains ":")             *)
(*   label   : "<type> ... LABEL=<label>"       (last = TRUE)              *)
(*             "<type> LABEL=<label> ..."       (last = FALSE)             *)
(*   print   : "PRINT <f1> <f2> <f3>", the fields STRIDE=, ARG=, FILE= in  *)
(*             the order given, ARG listing nargs names                    *)
(***************************************************************************)
CvTypes == {"PATH", "TORSION"}
FieldKeys == {"STRIDE", "ARG", "FILE"}
FieldOrders ==
    {o \in [1..3 -> FieldKeys] : \A i, j \in 1..3 : i # j => o[i] # o[j]}

CommentLines == {[kind |-> "comment"]}
ColonLines == {[kind |-> "colon", type |-> t] : t \in CvTypes}
LabelLines ==
    {[kind |-> "label", type |-> t, last |-> b] : t \in CvTypes, b \in BOOLEAN}
PrintLines ==
    {[kind |-> "print", order |-> o, nargs |-> n] :
        o \in FieldOrders, n \in 1..MaxArgs}
BodyLines == CommentLines \cup ColonLines \cup LabelLines
Lines == BodyLines \cup PrintLines

SeqsUpTo(S, n) == UNION {[1..k -> S] : k \in 0..n}

\* Files with at most one PRINT directive, anywhere in the file.
FilesOfLength(n) ==
    [1..n -> BodyLines] \cup
    {[i \in 1..n |-> IF i = p THEN pl ELSE IF i < p THEN b[i] ELSE b[i - 1]] :
        p \in 1..n, pl \in PrintLines, b \in [1..(n - 1) -> BodyLines]}
Fragments == UNION {FilesOfLength(n) : n \in 0..MaxLines}

Methods == {"restrained", "constrained"}
Strides == {100, 500}
OutFiles == {"plm.out"}

(***************************************************************************)
(* What the parser reads off a line.                                       *)
(***************************************************************************)
HasPrint(line) == line.kind = "print"          \* "PRINT" in line
HasHash(line) == line.kind = "comment"         \* "#" in line
HasColon(line) == line.kind = "colon"          \* ":" in line
HasLabel(line) == line.kind = "label"          \* "LABEL" in line

\* line.split(":")[1].strip().split(" ")[0], line.split("LABEL=")[0]...[0]
CvTypeOf(line) == line.type

\* A captured name: the label, whether the rest of the line trails it, and
\* the PATH channel appended to it ("" for none).
CvName(label, tail, chan) == [label |-> label, tail |-> tail, chan |-> chan]

\* line.split(":")[0]: the text before the colon.
ColonText(i, line) == [label |-> i, tail |-> FALSE]
\* line.split("LABEL=")[1]: everything after "LABEL=", to the end of line.
LabelText(i, line) == [label |-> i, tail |-> ~line.last]

None == [some |-> FALSE]
Some(v) == [some |-> TRUE, v |-> v]

\* print_content.split(): the PRINT word, then the fields in file order.
OrigField(key, nargs) ==
    CASE key = "STRIDE" -> [key |-> "STRIDE", stride |-> 10]
      [] key = "ARG" -> [key |-> "ARG", arg |-> [i \in 1..nargs |-> i]]
      [] key = "FILE" -> [key |-> "FILE", file |-> "user.out"]
Tokens(line) ==
    <<[key |-> "PRINT"]>> \o [i \in 1..3 |-> OrigField(line.order[i], line.nargs)]

\* len(print_content.split(",")): one more than the commas of the line, and
\* only the ARG field holds commas.
CommaPieces(line) == 1 + (IF line.nargs > 0 THEN line.nargs - 1 ELSE 0)

\* print_content_list[-1] = FILE, then print_content_list[1] = STRIDE.
RewritePrint(tokens, pstride, pfile) ==
    LET t1 == [tokens EXCEPT ![Len(tokens)] = [key |-> "FILE", file |-> pfile]]
    IN  [t1 EXCEPT ![2] = [key |-> "STRIDE", stride |-> pstride]]

Raise(kind, msg) == [ok |-> FALSE, error |-> kind, msg |-> msg]

(***************************************************************************)
(* user_plumed_def: the scan of the file, then the checks.                 *)
(***************************************************************************)
ScanStart ==
    [ret |-> <<>>, cv_names |-> <<>>, ispath |-> FALSE,
     print_content |-> None, stop |-> FALSE]

CollectName(st, cv_type, text) ==
    IF cv_type # "PATH" /\ ~st.ispath
    THEN [st EXCEPT !.cv_names = Append(@, CvName(text.label, text.tail, ""))]
    ELSE IF cv_type = "PATH"
    THEN [st EXCEPT !.ispath = TRUE,
                    !.cv_names = <<CvName(text.label, text.tail, "spath"),
                                   CvName(text.label, text.tail, "zpath")>>]
    ELSE st

ScanLine(st, line, i, method) ==
    IF HasPrint(line) /\ ~HasHash(line)
    THEN [st EXCEPT !.print_content = Some(line), !.stop = TRUE]
    ELSE LET st1 == [st EXCEPT !.ret = Append(@, line)]
         IN  IF method = "restrained"
             THEN IF HasColon(line) /\ ~HasHash(line)
                  THEN CollectName(st1, CvTypeOf(line), ColonText(i, line))
                  ELSE IF HasLabel(line) /\ ~HasHash(line)
                  THEN CollectName(st1, CvTypeOf(line), LabelText(i, line))
                  ELSE st1
             ELSE IF method = "constrained"
             THEN [st1 EXCEPT !.cv_names = <<>>]
             ELSE st1

RECURSIVE ScanFrom(_, _, _, _)
ScanFrom(st, cv_file, i, method) ==
    IF i > Len(cv_file) \/ st.stop
    THEN st
    ELSE ScanFrom(ScanLine(st, cv_file[i], i, method), cv_file, i + 1, method)

\* The comparison left out.
PrintCheckOff(line, cv_names) == TRUE

PrintCheck(line, cv_names) == CommaPieces(line) = Len(cv_names)

user_plumed_def(cv_file, pstride, pfile, method) ==
    LET st == ScanFrom(ScanStart, cv_file, 1, method)
        ret(pcont) == [ok |-> TRUE, ret |-> st.ret, cv_names |-> st.cv_names,
                       print_content |-> pcont]
    IN  IF st.ret = <<>> /\ st.cv_names = <<>>
        THEN Raise("RuntimeError", "Invalid customed plumed files.")
        ELSE IF st.print_content.some
        THEN IF method = "restrained"
             THEN IF ~PrintCheck(st.print_content.v, st.cv_names)
                  THEN Raise("AssertionError", "CVs defined and CVs printed differ")
                  ELSE ret(Some(RewritePrint(Tokens(st.print_content.v), pstride, pfile)))
             ELSE IF method = "constrained"
             THEN ret(Some(RewritePrint(Tokens(st.print_content.v), pstride, pfile)))
             ELSE ret(Some(Tokens(st.print_content.v)))
        ELSE ret(None)

(***************************************************************************)
(* The CV resolver.  The structural collaborator (get_dihedral_from_resid, *)
(* get_distance_from_atomid) is outside this code; its answer is the input:*)
(* a dict, modelled as the list of its items in key order.                 *)
(***************************************************************************)
AngSeqs == {<<>>, <<"phi">>, <<"psi">>, <<"phi", "psi">>, <<"psi", "phi">>}
DihedralInfos ==
    UNION {{[i \in 1..n |-> [resid |-> i, angs |-> a[i]]] : a \in [1..n -> AngSeqs]} :
           n \in 0..MaxRes}
AtomPairs == {<<a, b>> : a \in 1..(MaxRes + 1), b \in 1..(MaxRes + 1)} \ 
             {<<a, a>> : a \in 1..(MaxRes + 1)}
DistanceInfos ==
    {d \in SeqsUpTo({p \in AtomPairs : p[1] < p[2]}, MaxRes) :
        \A i, j \in DOMAIN d : i # j => d[i] # d[j]}

angle_id(ang) == IF ang = "phi" THEN 0 ELSE 1
\* The four atoms the structure lists for an angle of a residue.
AtomsOf(resid, ang) == [k \in 1..4 |-> 4 * resid + angle_id(ang) + k]

make_torsion_name(resid, angid) == [resid |-> resid, angid |-> angid]
make_distance_name(atomids) == [atomid1 |-> atomids[1], atomid2 |-> atomids[2]]

make_torsion(name, atom_list) ==
    IF Len(atom_list) # 4
    THEN Raise("AssertionError", "dihedral angle not defined by 4 atoms")
    ELSE [t |-> "torsion", name |-> name, atoms |-> atom_list]
make_distance(name, atom_list) ==
    IF Len(atom_list) # 2
    THEN Raise("AssertionError", "distance not defined by 2 atoms")
    ELSE [t |-> "distance", name |-> name, atoms |-> atom_list]

\* The items of one residue, then of the whole dict, in iteration order.
RECURSIVE TorsionsOfResidue(_, _, _)
TorsionsOfResidue(resid, angs, k) ==
    IF k > Len(angs) THEN <<>>
    ELSE <<make_torsion(make_torsion_name(resid, angle_id(angs[k])),
                        AtomsOf(resid, angs[k]))>>
         \o TorsionsOfResidue(resid, angs, k + 1)

RECURSIVE TorsionsFrom(_, _)
TorsionsFrom(dihedral_info, i) ==
    IF i > Len(dihedral_info) THEN <<>>
    ELSE TorsionsOfResidue(dihedral_info[i].resid, dihedral_info[i].angs, 1)
         \o TorsionsFrom(dihedral_info, i + 1)

NamesOf(defs) == [i \in DOMAIN defs |-> defs[i].name]

make_torsion_list(dihedral_info) ==
    LET torsion_list == TorsionsFrom(dihedral_info, 1)
    IN  [ok |-> TRUE, defs |-> torsion_list, names |-> NamesOf(torsion_list)]

make_distance_list(distance_info) ==
    LET distance_list ==
            [i \in DOMAIN distance_info |->
                make_distance(make_distance_name(distance_info[i]), distance_info[i])]
    IN  [ok |-> TRUE, defs |-> distance_list, names |-> NamesOf(distance_list)]

make_torsion_list_from_file(cv_info) ==
    IF ~(Len(cv_info) > 0)
    THEN Raise("AssertionError", "No valid CVs created.")
    ELSE make_torsion_list(cv_info)

make_distance_list_from_file(cv_info) ==
    IF ~(Len(cv_info) > 0)
    THEN Raise("AssertionError", "No valid CVs created.")
    ELSE make_distance_list(cv_info)

(***************************************************************************)
(* The clauses of a script.                                                *)
(***************************************************************************)
make_restraint(name, arg, kappa, at) ==
    [t |-> "restraint", name |-> name, arg |-> arg, kappa |-> kappa, at |-> at]

make_restraint_list(cv_list, kappa, at) ==
    IF Len(cv_list) # Len(kappa)
    THEN Raise("AssertionError", "kappa and cv_names differ in length")
    ELSE IF Len(cv_list) # Len(at)
    THEN Raise("AssertionError", "at and cv_names differ in length")
    ELSE [ok |-> TRUE,
          res_list |-> [idx \in DOMAIN cv_list |->
                          make_restraint([res |-> cv_list[idx]], cv_list[idx],
                                         kappa[idx], at[idx])],
          res_names |-> [idx \in DOMAIN cv_list |-> [res |-> cv_list[idx]]]]

EmptyString == [t |-> "text", text |-> ""]

\* A bias clause written whether or not there is a model.
make_deepfe_bias_always(cv_list, trust_lvl_1, trust_lvl_2, model_list) ==
    [t |-> "deepfe", trust_lvl_1 |-> trust_lvl_1, trust_lvl_2 |-> trust_lvl_2,
     model |-> model_list, arg |-> cv_list]

make_deepfe_bias(cv_list, trust_lvl_1, trust_lvl_2, model_list) ==
    IF Len(model_list) = 0
    THEN EmptyString
    ELSE [t |-> "deepfe", trust_lvl_1 |-> trust_lvl_1, trust_lvl_2 |-> trust_lvl_2,
          model |-> model_list, arg |-> cv_list]

make_print(name_list, stride, file_name) ==
    [t |-> "print",
     tokens |-> <<[key |-> "PRINT"], [key |-> "STRIDE", stride |-> stride],
                  [key |-> "ARG", arg |-> name_list],
                  [key |-> "FILE", file |-> file_name]>>]

\* list_to_string: str() of every item, joined by the separator.  The
\* script is kept as the list of the joined pieces.  str(None) is the
\* text "None"; a PRINT line read from the user's file is a PRINT clause.
StrOf(item) ==
    IF "some" \in DOMAIN item
    THEN IF item.some THEN [t |-> "print", tokens |-> item.v]
         ELSE [t |-> "text", text |-> "None"]
    ELSE item
list_to_string(a_list) == [i \in DOMAIN a_list |-> StrOf(a_list[i])]

Body(ret) == [t |-> "body", lines |-> ret]

(***************************************************************************)
(* kappa and at: a number, or a sequence with one value per CV.            *)
(***************************************************************************)
Scalar(v) == [form |-> "scalar", num |-> v]
PerCv(s) == [form |-> "seq", seq |-> s]
IsNumber(x) == x.form = "scalar"     \* isinstance(x, int) or isinstance(x, float)
\* A broadcast that is one value short.
BroadcastShort(x, n) == IF IsNumber(x) THEN [i \in 1..(n - 1) |-> x.num] ELSE x.seq

Broadcast(x, n) == IF IsNumber(x) THEN [i \in 1..n |-> x.num] ELSE x.seq

(***************************************************************************)
(* The three synthesizers.  A call names the mode and carries the answer   *)
(* of the structural collaborator (conf) or the user's file (cv_file).     *)
(***************************************************************************)
UnknownMode == Raise("RuntimeError", "Unknown mode for making plumed files.")
Script(content_list) == [ok |-> TRUE, script |-> list_to_string(content_list)]

RestraintTail(content_list, cv_name_list, kappa, at, stride, output) ==
    LET res == make_restraint_list(cv_name_list,
                                   Broadcast(kappa, Len(cv_name_list)),
                                   Broadcast(at, Len(cv_name_list)))
    IN  IF ~res.ok THEN res
        ELSE Script(content_list \o res.res_list
                    \o <<make_print(cv_name_list, stride, output)>>)

make_restraint_plumed(conf, cv_file, kappa, at, stride, output, mode, method) ==
    IF mode = "torsion"
    THEN LET cv == make_torsion_list_from_file(conf)
         IN  IF ~cv.ok THEN cv
             ELSE RestraintTail(cv.defs, cv.names, kappa, at, stride, output)
    ELSE IF mode = "custom"
    THEN LET cv == user_plumed_def(cv_file, stride, output, method)
         IN  IF ~cv.ok THEN cv
             ELSE RestraintTail(<<Body(cv.ret)>>, cv.cv_names, kappa, at, stride, output)
    ELSE UnknownMode

ConstraintTail(content_list, cv_name_list, print_content, stride, output) ==
    IF cv_name_list = <<>>
    THEN Script(Append(content_list, print_content))
    ELSE Script(Append(content_list, make_print(cv_name_list, stride, output)))

\* print_content is bound only by the custom branch: with no CV names from
\* the structure the read of it is an UnboundLocalError.
make_constraint_plumed(conf, cv_file, stride, output, mode, method) ==
    IF mode = "distance"
    THEN LET cv == make_distance_list_from_file(conf)
         IN  IF ~cv.ok THEN cv
             ELSE IF cv.names = <<>>
             THEN Raise("UnboundLocalError", "print_content")
             ELSE ConstraintTail(cv.defs, cv.names, None, stride, output)
    ELSE IF mode = "custom"
    THEN LET cv == user_plumed_def(cv_file, stride, output, method)
         IN  IF ~cv.ok THEN cv
             ELSE ConstraintTail(<<Body(cv.ret)>>, cv.cv_names, cv.print_content,
                                 stride, output)
    ELSE UnknownMode

DeepfeTail(content_list, cv_name_list, trust_lvl_1, trust_lvl_2, model_list, stride, output) ==
    LET deepfe_string == make_deepfe_bias(cv_name_list, trust_lvl_1, trust_lvl_2,
                                          model_list)
    IN  Script(content_list \o <<deepfe_string>>
               \o <<make_print(cv_name_list, stride, output)>>)

\* The custom branch calls user_plumed_def with three arguments; the
\* function takes four and has no default for the fourth.
make_deepfe_plumed(conf, cv_file, trust_lvl_1, trust_lvl_2, model_list, stride, output, mode) ==
    IF mode = "torsion"
    THEN LET cv == make_torsion_list_from_file(conf)
         IN  IF ~cv.ok THEN cv
             ELSE DeepfeTail(cv.defs, cv.names, trust_lvl_1, trust_lvl_2,
                             model_list, stride, output)
    ELSE IF mode = "distance"
    THEN LET cv == make_distance_list_from_file(conf)
         IN  IF ~cv.ok THEN cv
             ELSE DeepfeTail(cv.defs, cv.names, trust_lvl_1, trust_lvl_2,
                             model_list, stride, output)
    ELSE IF mode = "custom"
    THEN Raise("TypeError", "user_plumed_def() missing argument 'method'")
    ELSE UnknownMode

(***************************************************************************)
(* The parser called on its own.                                           *)
(***************************************************************************)
Idle == [fn |-> "none"]
NoResult == [ok |-> FALSE, error |-> "none", msg |-> ""]

Init ==
    /\ pc = "idle"
    /\ call = Idle
    /\ result = NoResult
    /\ written = <<>>
    /\ std_calls = 0

CallUserPlumedDef ==
    /\ pc = "idle"
    /\ \E f \in Fragments, s \in Strides, o \in OutFiles, m \in Methods :
        /\ call' = [fn |-> "user_plumed_def", cv_file |-> f, pstride |-> s,
                    pfile |-> o, method |-> m]
        /\ result' = user_plumed_def(f, s, o, m)
    /\ pc' = "done"
    /\ UNCHANGED <<written, std_calls>>

NextParser == CallUserPlumedDef
SpecParser == Init /\ [][NextParser]_vars

(***************************************************************************)
(* The synthesizers called.                                                *)
(***************************************************************************)
Modes == {"torsion", "distance", "custom", "angle"}
KnownModes == {"torsion", "distance", "custom"}
SynthFragments == UNION {FilesOfLength(n) : n \in 0..MaxSynthLines}

\* What a call is handed for a mode: the structure's answer, or the file.
Sources(mode) ==
    CASE mode = "torsion" ->
            {[conf |-> c, cv_file |-> <<>>] : c \in DihedralInfos}
      [] mode = "distance" ->
            {[conf |-> c, cv_file |-> <<>>] : c \in DistanceInfos}
      [] mode = "custom" ->
            {[conf |-> <<>>, cv_file |-> f] : f \in SynthFragments}
      [] OTHER -> {[conf |-> <<>>, cv_file |-> <<>>]}

RestraintInputs ==
    {Scalar(1), Scalar(2)}
    \cup {PerCv([i \in 1..n |-> 1]) : n \in 0..MaxSeq}
    \cup {PerCv([i \in 1..n |-> i]) : n \in 0..MaxSeq}
TrustLevels == {<<1, 3>>, <<2, 3>>}
ModelLists == {[i \in 1..n |-> i] : n \in 0..MaxModels}

CallMakeRestraintPlumed ==
    /\ pc = "idle"
    /\ \E mode \in Modes, s \in Strides, o \in OutFiles, m \in Methods,
          kappa \in RestraintInputs, at \in RestraintInputs :
        \E src \in Sources(mode) :
            /\ call' = [fn |-> "make_restraint_plumed", conf |-> src.conf,
                        cv_file |-> src.cv_file, kappa |-> kappa, at |-> at,
                        stride |-> s, output |-> o, mode |-> mode, method |-> m]
            /\ result' = make_restraint_plumed(src.conf, src.cv_file, kappa, at,
                                               s, o, mode, m)
    /\ pc' = "done"
    /\ UNCHANGED <<written, std_calls>>

CallMakeConstraintPlumed ==
    /\ pc = "idle"
    /\ \E mode \in Modes, s \in Strides, o \in OutFiles, m \in Methods :
        \E src \in Sources(mode) :
            /\ call' = [fn |-> "make_constraint_plumed", conf |-> src.conf,
                        cv_file |-> src.cv_file, stride |-> s, output |-> o,
                        mode |-> mode, method |-> m]
            /\ result' = make_constraint_plumed(src.conf, src.cv_file, s, o, mode, m)
    /\ pc' = "done"
    /\ UNCHANGED <<written, std_calls>>

CallMakeDeepfePlumed ==
    /\ pc = "idle"
    /\ \E mode \in Modes, s \in Strides, o \in OutFiles, tl \in TrustLevels,
          ml \in ModelLists :
        \E src \in Sources(mode) :
            /\ call' = [fn |-> "make_deepfe_plumed", conf |-> src.conf,
                        cv_file |-> src.cv_file, trust_lvl_1 |-> tl[1],
                        trust_lvl_2 |-> tl[2], model_list |-> ml,
                        stride |-> s, output |-> o, mode |-> mode]
            /\ result' = make_deepfe_plumed(src.conf, src.cv_file, tl[1], tl[2], ml,
                                            s, o, mode)
    /\ pc' = "done"
    /\ UNCHANGED <<written, std_calls>>

CallMakeTorsionListFromFile ==
    /\ pc = "idle"
    /\ \E cv_info \in DihedralInfos :
        /\ call' = [fn |-> "make_torsion_list_from_file", cv_info |-> cv_info]
        /\ result' = make_torsion_list_from_file(cv_info)
    /\ pc' = "done"
    /\ UNCHANGED <<written, std_calls>>

CallMakeDistanceListFromFile ==
    /\ pc = "idle"
    /\ \E cv_info \in DistanceInfos :
        /\ call' = [fn |-> "make_distance_list_from_file", cv_info |-> cv_info]
        /\ result' = make_distance_list_from_file(cv_info)
    /\ pc' = "done"
    /\ UNCHANGED <<written, std_calls>>

NextSynth ==
    \/ CallMakeTorsionListFromFile
    \/ CallMakeDistanceListFromFile
    \/ CallMakeRestraintPlumed
    \/ CallMakeConstraintPlumed
    \/ CallMakeDeepfePlumed
SpecSynth == Init /\ [][NextSynth]_vars

(***************************************************************************)
(* RunSelect.execute.  Positions count from 1 here and from 0 in numpy.    *)
(***************************************************************************)
\* The collaborators of the selection call.
\* make_std: one statistic per candidate; devi is what the committee's
\* models disagree by on the candidates.  An empty committee disagrees
\* nowhere.
make_std(cls_sel_data, models, devi) ==
    IF Len(models) = 0 THEN [i \in DOMAIN cls_sel_data |-> 0] ELSE devi

\* A selector that drops the candidates whose statistic equals the level.
select_from_devi_strict(stds, threshold) ==
    SelectSeq([i \in 1..Len(stds) |-> i], LAMBDA i : stds[i] < threshold)

\* select_from_devi: the positions whose statistic does not exceed the level.
select_from_devi(stds, threshold) ==
    SelectSeq([i \in 1..Len(stds) |-> i], LAMBDA i : stds[i] <= threshold)

save_txt(dir, fname, text) == Append(dir, [file |-> fname, text |-> text])

model_devi_file == [f |-> "cls_model_devi"]
sel_ndx_file == [f |-> "sel_ndx"]
sel_gro_name(walker, idx) == [f |-> "conf_gro", walker |-> walker, idx |-> idx]
sel_lmp_name(walker, idx) == [f |-> "conf_lmp", walker |-> walker, idx |-> idx]
cv_init_label(walker, idx) == [f |-> "cv_init", walker |-> walker, idx |-> idx]
path_in_task(task_name, fname) == [task |-> task_name, file |-> fname]

\* Indexing that takes the leading entries, one per position given.
TakeLeading(arr, positions) == [k \in DOMAIN positions |-> arr[k]]

\* numpy indexing of an array by an array of positions.
Take(arr, positions) == [k \in DOMAIN positions |-> arr[positions[k]]]

\* slice_xtc, slice_dump: one structure file per selected frame.
slice_xtc_gmx(dir, walker_idx, time, output) ==
    Append(dir, [file |-> output, text |-> [walker |-> walker_idx, time |-> time]])
RECURSIVE slice_many(_, _, _, _, _)
slice_many(dir, walker_idx, selected_idx, k, style) ==
    IF k > Len(selected_idx) THEN dir
    ELSE slice_many(
            Append(dir, [file |-> IF style = "dpdata"
                                  THEN sel_lmp_name(walker_idx, selected_idx[k])
                                  ELSE sel_gro_name(walker_idx, selected_idx[k]),
                         text |-> [walker |-> walker_idx, frame |-> selected_idx[k]]]),
            walker_idx, selected_idx, k + 1, style)

\* Lines 102-111: the deviation record, the kept positions, the index file.
SelectStep(op_in) ==
    LET cls_sel_idx == op_in.cluster_selection_index
        cls_sel_data == op_in.cluster_selection_data
        stds == make_std(cls_sel_data, op_in.models.v, op_in.devi)
        dir1 == IF ~op_in.models.some
                THEN save_txt(<<>>, model_devi_file, <<>>)
                ELSE save_txt(<<>>, model_devi_file, stds)
        selected == IF ~op_in.models.some
                    THEN [ii \in 1..Len(cls_sel_idx) |-> ii]
                    ELSE select_from_devi(stds, op_in.trust_lvl_1)
        sel_idx == Take(cls_sel_idx, selected)
    IN  [dir |-> save_txt(dir1, sel_ndx_file, sel_idx),
         std_calls |-> IF op_in.models.some THEN 1 ELSE 0,
         sel_idx |-> sel_idx,
         sel_data |-> Take(cls_sel_data, selected)]

\* Lines 112-124: the structure files.
RECURSIVE SliceGmx(_, _, _, _)
SliceGmx(dir, op_in, sel_idx, ii) ==
    IF ii > Len(sel_idx) THEN [ok |-> TRUE, dir |-> dir]
    ELSE IF ~op_in.output_freq.some
    THEN Raise("TypeError", "unsupported operand type(s) for *: float and NoneType")
    ELSE SliceGmx(
            slice_xtc_gmx(dir, op_in.walker_idx,
                          sel_idx[ii] * op_in.dt.v * op_in.output_freq.v,
                          sel_gro_name(op_in.walker_idx, sel_idx[ii])),
            op_in, sel_idx, ii + 1)

SliceStep(dir, op_in, sel_idx) ==
    IF op_in.slice_mode = "gmx"
    THEN IF ~op_in.dt.some
         THEN Raise("AssertionError", "Please provide time step to slice trajectory.")
         ELSE SliceGmx(dir, op_in, sel_idx, 1)
    ELSE IF op_in.slice_mode = "mdtraj"
    THEN [ok |-> TRUE, dir |-> slice_many(dir, op_in.walker_idx, sel_idx, 1, "mdtraj")]
    ELSE IF op_in.slice_mode = "dpdata"
    THEN [ok |-> TRUE, dir |-> slice_many(dir, op_in.walker_idx, sel_idx, 1, "dpdata")]
    ELSE Raise("RuntimeError", "Unknown Style for Slicing Trajectory.")

\* Lines 125-136: the lists of the output and the CV files.
ConfName(op_in, sel) ==
    IF op_in.slice_mode = "dpdata"
    THEN sel_lmp_name(op_in.walker_idx, sel)
    ELSE sel_gro_name(op_in.walker_idx, sel)

RECURSIVE CollectStep(_, _, _, _, _)
CollectStep(acc, op_in, sel_idx, sel_data, ii) ==
    IF ii > Len(sel_idx) THEN acc
    ELSE LET sel == sel_idx[ii]
         IN  CollectStep(
                [dir |-> save_txt(acc.dir, cv_init_label(op_in.walker_idx, sel),
                                  sel_data[ii]),
                 conf_list |-> Append(acc.conf_list,
                                      path_in_task(op_in.task_name, ConfName(op_in, sel))),
                 conf_tags |-> Append(acc.conf_tags,
                                      [key |-> ConfName(op_in, sel),
                                       tag |-> [task |-> op_in.task_name, idx |-> sel]]),
                 cv_init_list |-> Append(acc.cv_init_list,
                                         path_in_task(op_in.task_name,
                                                      cv_init_label(op_in.walker_idx, sel)))],
                op_in, sel_idx, sel_data, ii + 1)

\* The whole call: what it leaves in the task directory and what it returns.
execute(op_in) ==
    LET a == SelectStep(op_in)
        b == SliceStep(a.dir, op_in, a.sel_idx)
        c == CollectStep([dir |-> b.dir, conf_list |-> <<>>, conf_tags |-> <<>>,
                          cv_init_list |-> <<>>],
                         op_in, a.sel_idx, a.sel_data, 1)
    IN  IF ~b.ok
        THEN [written |-> a.dir, std_calls |-> a.std_calls, out |-> b]
        ELSE [written |-> c.dir, std_calls |-> a.std_calls,
              out |-> [ok |-> TRUE,
                       selected_confs |-> c.conf_list,
                       selected_cv_init |-> c.cv_init_list,
                       model_devi |-> path_in_task(op_in.task_name, model_devi_file),
                       selected_indices |-> path_in_task(op_in.task_name, sel_ndx_file),
                       selected_conf_tags |-> c.conf_tags]]

(***************************************************************************)
(* The selection call and its inputs.                                      *)
(***************************************************************************)
Devis == 0..3
CandidateFrames(n) == {[i \in 1..n |-> i], [i \in 1..n |-> n + 1 - i]}
SliceInputs ==
    {[slice_mode |-> "gmx", dt |-> d, output_freq |-> f] :
        d \in {None, Some(2)}, f \in {None, Some(1)}}
    \cup {[slice_mode |-> sm, dt |-> None, output_freq |-> None] :
            sm \in {"mdtraj", "dpdata", "vmd"}}
\* No committee, or a committee and what its models disagree by.
Committees(n) ==
    {[models |-> None, devi |-> <<>>], [models |-> Some(<<>>), devi |-> <<>>]}
    \cup {[models |-> Some([i \in 1..m |-> i]), devi |-> d] :
            m \in {1, MaxModels}, d \in [1..n -> Devis]}

CallExecute ==
    /\ pc = "idle"
    /\ \E n \in 0..MaxCand, tl \in TrustLevels, sl \in SliceInputs :
        \E frames \in CandidateFrames(n), cm \in Committees(n) :
            LET op_in == [task_name |-> "000", walker_idx |-> 0,
                          cluster_selection_index |-> frames,
                          cluster_selection_data |-> [i \in 1..n |-> [row |-> i]],
                          models |-> cm.models, devi |-> cm.devi,
                          trust_lvl_1 |-> tl[1], trust_lvl_2 |-> tl[2],
                          dt |-> sl.dt, output_freq |-> sl.output_freq,
                          slice_mode |-> sl.slice_mode]
                r == execute(op_in)
            IN  /\ call' = [fn |-> "execute"] @@ op_in
                /\ result' = r.out
                /\ written' = r.written
                /\ std_calls' = r.std_calls
    /\ pc' = "done"

NextSelect == CallExecute
SpecSelect == Init /\ [][NextSelect]_vars

(***************************************************************************)
(* All of it.                                                              *)
(***************************************************************************)
(***************************************************************************)
(* resubmit_rid: the steps of the old workflow handed over for reuse.       *)
(***************************************************************************)
StepTypes == {"Pod", "Steps"}
StepPhases == {"Succeeded", "Failed", "Running"}
StepKeys == {"prepare-rid", "init-tasks", "run-select-000"}
\* A step as old_workflow.query_step() reports it.
RecordedSteps == [type : StepTypes, phase : StepPhases, key : StepKeys]
StepGraphs == UNION {[1..n -> RecordedSteps] : n \in 0..MaxSteps}

\* The test of the loop body without the comparison of the key.
ReusableAnyKey(step) == step.type = "Pod" /\ step.phase = "Succeeded"

\* The three nested conditions of the loop body.
Reusable(step) ==
    /\ step.type = "Pod"
    /\ step.phase = "Succeeded"
    /\ step.key # "prepare-rid"

\* The loop over all_steps, appending to succeeded_steps.
RECURSIVE CollectSucceeded(_, _, _)
CollectSucceeded(all_steps, i, succeeded_steps) ==
    IF i > Len(all_steps) THEN succeeded_steps
    ELSE CollectSucceeded(all_steps, i + 1,
             IF Reusable(all_steps[i])
             THEN Append(succeeded_steps, all_steps[i])
             ELSE succeeded_steps)

\* What wf.submit receives as reuse_step.
resubmit_rid(all_steps) ==
    [ok |-> TRUE, reuse_step |-> CollectSucceeded(all_steps, 1, <<>>)]

CallResubmitRid ==
    /\ pc = "idle"
    /\ \E g \in StepGraphs :
        /\ call' = [fn |-> "resubmit_rid", all_steps |-> g]
        /\ result' = resubmit_rid(g)
    /\ pc' = "done"
    /\ UNCHANGED <<written, std_calls>>

NextResubmit == CallResubmitRid
SpecResubmit == Init /\ [][NextResubmit]_vars

Next == NextParser \/ NextSynth \/ NextSelect \/ NextResubmit
Spec == Init /\ [][Next]_vars

(***************************************************************************)
(* Reading a script and the task directory.                                *)
(***************************************************************************)
SynthFns == {"make_restraint_plumed", "make_constraint_plumed", "make_deepfe_plumed"}
ResolverFns == {"make_torsion_list_from_file", "make_distance_list_from_file"}

IsDefinition(e) == e.t \in {"torsion", "distance", "body"}
IsBias(e) == e.t \in {"restraint", "deepfe"}
IsMonitor(e) == e.t = "print"
\* The pieces of a script that are not empty lines.
Clauses(script) == SelectSeq(script, LAMBDA e : e # EmptyString)
Rank(e) == IF IsDefinition(e) THEN 1 ELSE IF IsBias(e) THEN 2
           ELSE IF IsMonitor(e) THEN 3 ELSE 4

\* Definitions, then bias clauses, then one monitoring clause, the last.
WellLaidOut(script) ==
    LET c == Clauses(script)
    IN  /\ Len(c) >= 1
        /\ IsMonitor(c[Len(c)])
        /\ \A i \in 1..(Len(c) - 1) : ~IsMonitor(c[i]) /\ Rank(c[i]) <= Rank(c[i + 1])

\* What the last write to a file left in it.
Wrote(fname) == \E k \in DOMAIN written : written[k].file = fname
TextOf(fname) ==
    LET k == CHOOSE k \in DOMAIN written :
                /\ written[k].file = fname
                /\ \A j \in DOMAIN written : written[j].file = fname => j <= k
    IN  written[k].text

(***************************************************************************)
(* C1.  Every script a synthesizer returns holds the CV definitions first, *)
(* then the bias or restraint clauses, then exactly one monitoring (PRINT) *)
(* clause as its last element.                                             *)
(***************************************************************************)
C1_ScriptLayout ==
    (call.fn \in SynthFns /\ result.ok) => WellLaidOut(result.script)

(***************************************************************************)
(* C2.  Each synthesizer accepts the modes torsion, distance and custom,   *)
(* and fails with the unknown-mode error for every other mode and for no   *)
(* mode of the three: no failure of a call is due to its mode tag unless   *)
(* the tag is outside the set.                                             *)
(***************************************************************************)
FailsOnModeTag(r) == ~r.ok /\ (r = UnknownMode \/ r.error = "TypeError")
C2_ModesAccepted ==
    call.fn \in SynthFns =>
        /\ call.mode \in KnownModes => ~FailsOnModeTag(result)
        /\ call.mode \notin KnownModes => result = UnknownMode

(***************************************************************************)
(* C3.  The CV resolver never returns an empty CV set: when no CV can be   *)
(* resolved from the structural info, the call fails.                      *)
(***************************************************************************)
C3_NeverEmpty ==
    (call.fn \in ResolverFns /\ result.ok) =>
        result.names # <<>> /\ result.defs # <<>>

(***************************************************************************)
(* C4.  A selection call that ends in an error (unknown slice_mode, or     *)
(* slice_mode gmx without dt) has written no file in the task directory.   *)
(***************************************************************************)
C4_NoPartialWrite ==
    (call.fn = "execute" /\ ~result.ok
        /\ result.error \in {"RuntimeError", "AssertionError"}) =>
        written = <<>>

(***************************************************************************)
(* C5.  With a committee supplied, the index file holds exactly the frames *)
(* at the candidate positions whose disagreement statistic does not exceed *)
(* trust_lvl_1, in input order; trust_lvl_2 plays no part.                 *)
(***************************************************************************)
\* The members of a set of positions, in increasing order.
InOrder(S) ==
    CHOOSE q \in [1..Cardinality(S) -> S] :
        \A a, b \in 1..Cardinality(S) : a < b => q[a] < q[b]
WithinTrust(stds, level) == {i \in DOMAIN stds : stds[i] <= level}

NoCommittee(c) == ~c.models.some \/ c.models.v = <<>>
C6_NoCommitteeKeepsAll ==
    (call.fn = "execute" /\ NoCommittee(call)) =>
        /\ TextOf(sel_ndx_file) = call.cluster_selection_index
        /\ TextOf(model_devi_file) = <<>>
        /\ std_calls = 0

(***************************************************************************)
(* Reading a user CV file the way its author means it.                     *)
(***************************************************************************)
IsPathDecl(line) == line.kind \in {"colon", "label"} /\ line.type = "PATH"
IsPlainDecl(line) == line.kind \in {"colon", "label"} /\ line.type # "PATH"
HasDirective(f) == \E i \in DOMAIN f : f[i].kind = "print"
DirectiveAt(f) == CHOOSE i \in DOMAIN f : f[i].kind = "print"
\* The lines in front of the PRINT directive, all of them when there is none.
Scanned(f) == IF HasDirective(f) THEN 1..(DirectiveAt(f) - 1) ELSE DOMAIN f
\* How many CV names those lines declare: the two channels of a PATH, or
\* one name for each declaration in front of it.
DeclaredCount(f) ==
    IF \E i \in Scanned(f) : IsPathDecl(f[i]) THEN 2
    ELSE Cardinality({i \in Scanned(f) : IsPlainDecl(f[i])})

InvalidDefinition == Raise("RuntimeError", "Invalid customed plumed files.")
PrintCvMismatch == Raise("AssertionError", "CVs defined and CVs printed differ")

(***************************************************************************)
(* C7.  With method restrained, a PATH declaration (colon form or LABEL=   *)
(* form) that follows earlier non-path CV declarations leaves exactly the  *)
(* two names <label>.spath and <label>.zpath of that PATH, in that order.  *)
(* Stated here for the files where the PATH is the only one, every line in *)
(* front of it is a non-path declaration and there is at least one.        *)
(***************************************************************************)
C7_PathSupersedes ==
    (call.fn = "user_plumed_def" /\ call.method = "restrained" /\ result.ok) =>
        \A p \in DOMAIN call.cv_file :
            (/\ p > 1
             /\ IsPathDecl(call.cv_file[p])
             /\ \A j \in 1..(p - 1) : IsPlainDecl(call.cv_file[j])
             /\ \A j \in DOMAIN call.cv_file : j > p => ~IsPathDecl(call.cv_file[j]))
            => result.cv_names = <<CvName(p, FALSE, "spath"), CvName(p, FALSE, "zpath")>>

ResolvedNames(c) ==
    IF c.mode = "torsion"
    THEN LET cv == make_torsion_list_from_file(c.conf)
         IN  IF cv.ok THEN cv.names ELSE <<>>
    ELSE IF c.mode = "distance"
    THEN LET cv == make_distance_list_from_file(c.conf)
         IN  IF cv.ok THEN cv.names ELSE <<>>
    ELSE IF c.mode = "custom"
    THEN LET cv == user_plumed_def(c.cv_file, c.stride, c.output, c.method)
         IN  IF cv.ok THEN cv.cv_names ELSE <<>>
    ELSE <<>>

Restraints(script) == SelectSeq(script, LAMBDA e : e.t = "restraint")

C9_BroadcastAgrees ==
    (call.fn = "make_restraint_plumed" /\ IsNumber(call.kappa) /\ IsNumber(call.at)) =>
        LET names == ResolvedNames(call)
            n == Len(names)
            explicit ==
                make_restraint_plumed(call.conf, call.cv_file,
                                      PerCv([i \in 1..n |-> call.kappa.num]),
                                      PerCv([i \in 1..n |-> call.at.num]),
                                      call.stride, call.output, call.mode, call.method)
        IN  /\ result = explicit
            /\ result.ok =>
                  LET res == Restraints(result.script)
                  IN  /\ Len(res) = n
                      /\ \A i \in 1..n :
                            /\ res[i].arg = names[i]
                            /\ res[i].kappa = call.kappa.num
                            /\ res[i].at = call.at.num

C9_Witness ==
    /\ call.fn = "make_restraint_plumed" /\ call.mode = "torsion"
    /\ IsNumber(call.kappa) /\ IsNumber(call.at)
    /\ result.ok /\ Len(Restraints(result.script)) = 2

(***************************************************************************)
(* C10.  make_deepfe_plumed with an empty model list returns the CV        *)
(* definitions followed by the monitoring clause over all resolved CV      *)
(* names, and no bias clause; with models it returns exactly one bias      *)
(* clause, between the definitions and the monitoring clause, that holds   *)
(* both trust levels, every model file and every resolved CV name.         *)
(***************************************************************************)
Definitions(script) == SelectSeq(script, LAMBDA e : e.t \in {"torsion", "distance"})
BiasClauses(script) == SelectSeq(script, LAMBDA e : e.t = "deepfe")

C10_DeepfeBias ==
    (call.fn = "make_deepfe_plumed" /\ result.ok) =>
        LET names == ResolvedNames(call)
            c == Clauses(result.script)
            defs == Definitions(result.script)
            monitor == make_print(names, call.stride, call.output)
        IN  /\ NamesOf(defs) = names
            /\ IF call.model_list = <<>>
               THEN /\ BiasClauses(result.script) = <<>>
                    /\ c = defs \o <<monitor>>
               ELSE /\ Len(BiasClauses(result.script)) = 1
                    /\ c = defs \o BiasClauses(result.script) \o <<monitor>>
                    /\ LET bias == BiasClauses(result.script)[1]
                       IN  /\ bias.trust_lvl_1 = call.trust_lvl_1
                           /\ bias.trust_lvl_2 = call.trust_lvl_2
                           /\ bias.model = call.model_list
                           /\ bias.arg = names

C10_Witness ==
    /\ call.fn = "make_deepfe_plumed" /\ result.ok
    /\ call.model_list = <<>>
    /\ Len(Definitions(result.script)) = 2
    /\ BiasClauses(result.script) = <<>>
    /\ IsMonitor(result.script[Len(result.script)])

(***************************************************************************)
(* C11.  On resubmission the steps handed over for reuse are exactly the   *)
(* recorded steps of type Pod and phase Succeeded whose key is not         *)
(* "prepare-rid", in the order of the record; the prepare step is never    *)
(* among them and no step that did not succeed is.                         *)
(***************************************************************************)
RangeOf(seq) == {seq[i] : i \in DOMAIN seq}

C11_ReuseSet ==
    call.fn = "resubmit_rid" =>
        LET reuse == result.reuse_step
            completed == {st \in RangeOf(call.all_steps) :
                            st.type = "Pod" /\ st.phase = "Succeeded"}
        IN  /\ result.ok
            /\ RangeOf(reuse) = {st \in completed : st.key # "prepare-rid"}
            /\ \A i \in DOMAIN reuse : reuse[i].key # "prepare-rid"
            /\ \A i \in DOMAIN reuse : reuse[i].phase = "Succeeded"
            /\ reuse = SelectSeq(call.all_steps,
                                 LAMBDA st : /\ st.type = "Pod"
                                             /\ st.phase = "Succeeded"
                                             /\ st.key # "prepare-rid")

C11_Witness ==
    /\ call.fn = "resubmit_rid" /\ Len(call.all_steps) = 3
    /\ \E i \in DOMAIN call.all_steps :
          call.all_steps[i] = [type |-> "Pod", phase |-> "Succeeded",
                               key |-> "prepare-rid"]
    /\ \E i \in DOMAIN call.all_steps :
          call.all_steps[i].type = "Pod" /\ call.all_steps[i].phase = "Failed"
    /\ Len(result.reuse_step) = 1
    /\ result.reuse_step[1].key = "init-tasks"

(***************************************************************************)
(* C12.  Whenever the file holds a PRINT directive and the call succeeds,  *)
(* the returned directive has one STRIDE field, holding the caller's       *)
(* stride, and one FILE field, holding the caller's output path, and every *)
(* other token of the directive (the ARG list in particular) is the one    *)
(* the file had, whatever the order of the fields.                         *)
(***************************************************************************)
FieldsAt(tokens, key) == {i \in DOMAIN tokens : tokens[i].key = key}

C12_FieldsRewritten ==
    (call.fn = "user_plumed_def" /\ HasDirective(call.cv_file) /\ result.ok) =>
        LET orig == Tokens(call.cv_file[DirectiveAt(call.cv_file)])
            new == result.print_content.v
        IN  /\ result.print_content.some
            /\ Len(new) = Len(orig)
            /\ Cardinality(FieldsAt(new, "STRIDE")) = 1
            /\ \A i \in FieldsAt(new, "STRIDE") : new[i].stride = call.pstride
            /\ Cardinality(FieldsAt(new, "FILE")) = 1
            /\ \A i \in FieldsAt(new, "FILE") : new[i].file = call.pfile
            /\ \A i \in DOMAIN orig :
                  orig[i].key \notin {"STRIDE", "FILE"} => new[i] = orig[i]

(***************************************************************************)
(* C13.  After a successful execute the index file holds the entries of    *)
(* cluster_selection_index at the kept positions, in their original order; *)
(* selected_confs and selected_cv_init hold one entry per selected index,  *)
(* in that order; and for the i-th selected index the structure file, the  *)
(* tag and the CV-init file carry that frame index, the CV-init file       *)
(* holding the row of cluster_selection_data at the same kept position.    *)
(***************************************************************************)
\* The kept positions: all of them without a committee, else those whose
\* recorded statistic does not exceed trust_lvl_1.
KeptPositions(c) ==
    LET n == Len(c.cluster_selection_index)
        K == IF ~c.models.some THEN 1..n
             ELSE WithinTrust(TextOf(model_devi_file), c.trust_lvl_1)
    IN  SelectSeq([p \in 1..n |-> p], LAMBDA p : p \in K)

C13_PairingKept ==
    (call.fn = "execute" /\ result.ok) =>
        LET kept == KeptPositions(call)
            sel_idx == TextOf(sel_ndx_file)
            w == call.walker_idx
        IN  /\ sel_idx = [i \in DOMAIN kept |-> call.cluster_selection_index[kept[i]]]
            /\ Len(result.selected_confs) = Len(sel_idx)
            /\ Len(result.selected_cv_init) = Len(sel_idx)
            /\ Len(result.selected_conf_tags) = Len(sel_idx)
            /\ \A i \in DOMAIN sel_idx :
                  /\ result.selected_confs[i] =
                        path_in_task(call.task_name, ConfName(call, sel_idx[i]))
                  /\ Wrote(ConfName(call, sel_idx[i]))
                  /\ result.selected_conf_tags[i] =
                        [key |-> ConfName(call, sel_idx[i]),
                         tag |-> [task |-> call.task_name, idx |-> sel_idx[i]]]
                  /\ result.selected_cv_init[i] =
                        path_in_task(call.task_name, cv_init_label(w, sel_idx[i]))
                  /\ Wrote(cv_init_label(w, sel_idx[i]))
                  /\ TextOf(cv_init_label(w, sel_idx[i])) =
                        call.cluster_selection_data[kept[i]]

C13_Witness ==
    /\ call.fn = "execute" /\ result.ok
    /\ call.slice_mode = "gmx"
    /\ call.models.some /\ call.models.v # <<>>
    /\ call.devi = <<0, 2, 1, 3, 2>> /\ call.trust_lvl_1 = 1
    /\ call.cluster_selection_index = <<5, 4, 3, 2, 1>>
    /\ TextOf(sel_ndx_file) = <<5, 3>>
    /\ Len(result.selected_cv_init) = 2
    /\ TextOf(cv_init_label(call.walker_idx, 3)) = call.cluster_selection_data[3]

====
